---- MODULE Spec2Model ----
(***************************************************************************)
(* Model of the node registry (src/src/registry/registry.ts) and of the    *)
(* RSA-OAEP / AES-CBC helpers (src/unnamed/part_000).                      *)
(***************************************************************************)
EXTENDS Integers, Sequences, FiniteSets, TLC

VARIABLES nodes, log, pending, sym, rsa

vars == <<nodes, log, pending, sym, rsa>>

(***************************************************************************)
(* Bytes and text.  A byte buffer is a sequence of 0..255; a JavaScript    *)
(* string is the sequence of its UTF-16 code units.                        *)
(***************************************************************************)
RECURSIVE XorBits(_, _)
XorBits(a, b) ==
  IF a = 0 THEN b
  ELSE IF b = 0 THEN a
  ELSE 2 * XorBits(a \div 2, b \div 2) + (((a % 2) + (b % 2)) % 2)

\* a ^ b on half bytes, tabulated.
XorNibble == [a \in 0..15 |-> [b \in 0..15 |-> XorBits(a, b)]]

\* a ^ b on bytes.
Xor(a, b) == 16 * XorNibble[a \div 16][b \div 16] + XorNibble[a % 16][b % 16]

\* The code units of the Base64 alphabet, A-Z a-z 0-9 + /.
B64Char(v) ==
  IF v < 26 THEN 65 + v
  ELSE IF v < 52 THEN 97 + (v - 26)
  ELSE IF v < 62 THEN 48 + (v - 52)
  ELSE IF v = 62 THEN 43 ELSE 47

\* The 6-bit value of a code unit, -1 when it is not a Base64 character.
\* Buffer's decoder also takes the URL-safe '-' and '_'.
B64Value(c) ==
  IF c >= 65 /\ c <= 90 THEN c - 65
  ELSE IF c >= 97 /\ c <= 122 THEN c - 97 + 26
  ELSE IF c >= 48 /\ c <= 57 THEN c - 48 + 52
  ELSE IF c = 43 \/ c = 45 THEN 62
  ELSE IF c = 47 \/ c = 95 THEN 63
  ELSE -1

Pad == 61

\* Buffer.from(buffer).toString("base64")
arrayBufferToBase64NoPad(buffer) ==
  LET n == Len(buffer)
      at(i) == IF i <= n THEN buffer[i] ELSE 0
      chars == (n * 4 + 2) \div 3
  IN [i \in 1..chars |->
       LET g == (i - 1) \div 4
           k == (i - 1) % 4
           w == at(3 * g + 1) * 65536 + at(3 * g + 2) * 256 + at(3 * g + 3)
       IN B64Char(CASE k = 0 -> w \div 262144
                    [] k = 1 -> (w \div 4096) % 64
                    [] k = 2 -> (w \div 64) % 64
                    [] OTHER -> w % 64)]

arrayBufferToBase64(buffer) ==
  LET n == Len(buffer)
      at(i) == IF i <= n THEN buffer[i] ELSE 0
      chars == (n * 4 + 2) \div 3
  IN [i \in 1..(4 * ((n + 2) \div 3)) |->
       LET g == (i - 1) \div 4
           k == (i - 1) % 4
           w == at(3 * g + 1) * 65536 + at(3 * g + 2) * 256 + at(3 * g + 3)
       IN IF i > chars THEN Pad
          ELSE B64Char(CASE k = 0 -> w \div 262144
                         [] k = 1 -> (w \div 4096) % 64
                         [] k = 2 -> (w \div 64) % 64
                         [] OTHER -> w % 64)]

\* The 6-bit values Buffer's decoder reads from a text: it skips every code
\* unit outside the alphabet and stops at the first '='.
B64Sextets(text) ==
  LET pads == {i \in 1..Len(text) : text[i] = Pad}
      stop == IF pads = {} THEN Len(text) + 1
              ELSE CHOOSE i \in pads : \A j \in pads : i <= j
      kept == SelectSeq(SubSeq(text, 1, stop - 1), LAMBDA c : B64Value(c) >= 0)
  IN [i \in 1..Len(kept) |-> B64Value(kept[i])]

\* Buffer.from(base64, "base64"): each full group of four characters gives
\* three bytes, a trailing group of three gives two, of two gives one, and
\* a single trailing character gives none.
base64ToArrayBuffer(base64) ==
  LET s == B64Sextets(base64)
      m == Len(s)
      at(i) == IF i <= m THEN s[i] ELSE 0
      n == (m \div 4) * 3 + (CASE (m % 4) = 2 -> 1 [] (m % 4) = 3 -> 2 [] OTHER -> 0)
  IN [i \in 1..n |->
       LET g == (i - 1) \div 3
           k == (i - 1) % 3
           w == at(4 * g + 1) * 262144 + at(4 * g + 2) * 4096
                + at(4 * g + 3) * 64 + at(4 * g + 4)
       IN CASE k = 0 -> w \div 65536
            [] k = 1 -> (w \div 256) % 256
            [] OTHER -> w % 256]

IsHighSurrogate(u) == u >= 55296 /\ u <= 56319
IsLowSurrogate(u) == u >= 56320 /\ u <= 57343
Replacement == 65533
ByteOrderMark == 65279

RECURSIVE ScalarValues(_, _)
\* The scalar values of a string: a surrogate pair is one code point, a
\* surrogate on its own is replaced by U+FFFD.
ScalarValues(str, i) ==
  IF i > Len(str) THEN <<>>
  ELSE IF IsHighSurrogate(str[i]) /\ i < Len(str) /\ IsLowSurrogate(str[i + 1])
    THEN <<65536 + (str[i] - 55296) * 1024 + (str[i + 1] - 56320)>>
         \o ScalarValues(str, i + 2)
  ELSE IF IsHighSurrogate(str[i]) \/ IsLowSurrogate(str[i])
    THEN <<Replacement>> \o ScalarValues(str, i + 1)
  ELSE <<str[i]>> \o ScalarValues(str, i + 1)

\* The UTF-8 bytes of one scalar value.
Utf8Bytes(cp) ==
  IF cp < 128 THEN <<cp>>
  ELSE IF cp < 2048 THEN <<192 + (cp \div 64), 128 + (cp % 64)>>
  ELSE IF cp < 65536
    THEN <<224 + (cp \div 4096), 128 + ((cp \div 64) % 64), 128 + (cp % 64)>>
  ELSE <<240 + (cp \div 262144), 128 + ((cp \div 4096) % 64),
         128 + ((cp \div 64) % 64), 128 + (cp % 64)>>

RECURSIVE Flatten(_, _)
Flatten(seqs, i) ==
  IF i > Len(seqs) THEN <<>> ELSE seqs[i] \o Flatten(seqs, i + 1)

\* new TextEncoder().encode(data)
TextEncode(data) ==
  LET cps == ScalarValues(data, 1)
  IN Flatten([i \in 1..Len(cps) |-> Utf8Bytes(cps[i])], 1)

RECURSIVE Utf8Decode(_, _, _, _, _, _)
\* The UTF-8 decoder of the Encoding standard, in replacement mode: cp is
\* the code point being read, need the continuation bytes still due, and
\* lo..hi the range the next byte must lie in.  A byte that cannot continue
\* the sequence ends it with U+FFFD and is read again as a first byte.
Utf8Decode(bytes, i, cp, need, lo, hi) ==
  IF i > Len(bytes) THEN (IF need > 0 THEN <<Replacement>> ELSE <<>>)
  ELSE LET b == bytes[i] IN
    IF need = 0 THEN
      IF b < 128 THEN <<b>> \o Utf8Decode(bytes, i + 1, 0, 0, 128, 191)
      ELSE IF b >= 194 /\ b <= 223
        THEN Utf8Decode(bytes, i + 1, b % 32, 1, 128, 191)
      ELSE IF b >= 224 /\ b <= 239
        THEN Utf8Decode(bytes, i + 1, b % 16, 2,
                        IF b = 224 THEN 160 ELSE 128, IF b = 237 THEN 159 ELSE 191)
      ELSE IF b >= 240 /\ b <= 244
        THEN Utf8Decode(bytes, i + 1, b % 8, 3,
                        IF b = 240 THEN 144 ELSE 128, IF b = 244 THEN 143 ELSE 191)
      ELSE <<Replacement>> \o Utf8Decode(bytes, i + 1, 0, 0, 128, 191)
    ELSE IF b < lo \/ b > hi
      THEN <<Replacement>> \o Utf8Decode(bytes, i, 0, 0, 128, 191)
    ELSE IF need = 1
      THEN <<cp * 64 + (b % 64)>> \o Utf8Decode(bytes, i + 1, 0, 0, 128, 191)
    ELSE Utf8Decode(bytes, i + 1, cp * 64 + (b % 64), need - 1, 128, 191)

\* The UTF-16 code units of one code point.
CodeUnits(cp) ==
  IF cp < 65536 THEN <<cp>>
  ELSE <<55296 + ((cp - 65536) \div 1024), 56320 + ((cp - 65536) % 1024)>>

\* new TextDecoder().decode(buffer): UTF-8, not fatal, ignoreBOM false, so
\* a leading U+FEFF is dropped.
TextDecode(buffer) ==
  LET all == Utf8Decode(buffer, 1, 0, 0, 128, 191)
      cps == IF all # <<>> /\ all[1] = ByteOrderMark THEN Tail(all) ELSE all
  IN Flatten([i \in 1..Len(cps) |-> CodeUnits(cps[i])], 1)

(***************************************************************************)
(* webcrypto.  The block transforms (the AES-256 block cipher, the RSA     *)
(* permutation) are stood in for by a keyed bijection on byte blocks in    *)
(* which every byte of the result depends on every byte of the input; the  *)
(* modes built on them (CBC chaining with PKCS#7 padding, OAEP encoding)   *)
(* are modelled as they are specified.                                     *)
(***************************************************************************)
Ok(value) == [ok |-> TRUE, value |-> value, error |-> ""]
Fail(name) == [ok |-> FALSE, value |-> <<>>, error |-> name]

RECURSIVE SumRange(_, _, _)
SumRange(s, lo, hi) ==
  IF lo > hi THEN 0
  ELSE IF lo = hi THEN s[lo]
  ELSE LET mid == (lo + hi) \div 2
       IN (SumRange(s, lo, mid) + SumRange(s, mid + 1, hi)) % 256

\* The sum of the bytes of a buffer, modulo 256.
SumBytes(s) == SumRange(s, 1, Len(s))

\* Key material spread over a block of n bytes.
Schedule(key, n) == [i \in 1..n |-> (key[((i - 1) % Len(key)) + 1] + 31 * i) % 256]

\* The keyed bijection on blocks whose length is a multiple of 16, and its
\* inverse.
Permute(key, x) ==
  LET n == Len(x)
      k == Schedule(key, n)
      a == SumBytes([i \in 1..n |-> (x[i] + k[i]) % 256])
  IN [i \in 1..n |-> (x[i] + k[i] + a * (2 * i - 1)) % 256]

Unpermute(key, y) ==
  LET n == Len(y)
      k == Schedule(key, n)
      t == SumBytes(y)
  IN [i \in 1..n |-> (y[i] + 512 - k[i] - ((t * (2 * i - 1)) % 256)) % 256]

XorBytes(a, b) == [i \in 1..Len(a) |-> Xor(a[i], b[i])]

Slice(buf, from, to) ==
  IF from > to THEN <<>> ELSE [i \in 1..(to - from + 1) |-> buf[from + i - 1]]

\* ---- AES-CBC ----
\* length: 256 in generateKey / importKey.
AesKeyBits == 256
AesKeyLen == AesKeyBits \div 8
\* The AES block, which is also the length of the IV: new Uint8Array(16).
IvLen == 16

\* webcrypto.subtle.generateKey({name: "AES-CBC", length: 256}): 32 random
\* bytes, here drawn from a seed.
createRandomSymmetricKey(seed) == [i \in 1..AesKeyLen |-> (seed * i + 7) % 256]

\* exportKey("raw", key) as Base64.
exportSymKey(key) == arrayBufferToBase64(key)

\* importKey("raw", ...): the raw bytes must be an AES key length.
importSymKey(strKey) ==
  LET raw == base64ToArrayBuffer(strKey)
  IN IF Len(raw) = AesKeyLen THEN Ok(raw) ELSE Fail("DataError")

Pkcs7Pad(data) ==
  LET p == IvLen - (Len(data) % IvLen)
  IN data \o [i \in 1..p |-> p]

RECURSIVE CbcEncryptFrom(_, _, _, _)
CbcEncryptFrom(key, prev, padded, b) ==
  IF (b - 1) * IvLen >= Len(padded) THEN <<>>
  ELSE LET block == Slice(padded, (b - 1) * IvLen + 1, b * IvLen)
           c == Permute(key, XorBytes(block, prev))
       IN c \o CbcEncryptFrom(key, c, padded, b + 1)

\* subtle.encrypt({name: "AES-CBC", iv}, key, data)
AesCbcEncrypt(key, iv, data) == CbcEncryptFrom(key, iv, Pkcs7Pad(data), 1)

RECURSIVE CbcDecryptFrom(_, _, _, _)
CbcDecryptFrom(key, prev, data, b) ==
  IF (b - 1) * IvLen >= Len(data) THEN <<>>
  ELSE LET c == Slice(data, (b - 1) * IvLen + 1, b * IvLen)
       IN XorBytes(Unpermute(key, c), prev) \o CbcDecryptFrom(key, c, data, b + 1)

\* Whether the padded plaintext ends in p bytes of value p, 1 <= p <= 16.
Pkcs7Valid(padded) ==
  LET n == Len(padded)
      p == padded[n]
  IN /\ p >= 1 /\ p <= IvLen
     /\ \A i \in (n - p + 1)..n : padded[i] = p

\* subtle.decrypt({name: "AES-CBC", iv}, key, data): fails on an IV that is
\* not 16 bytes, on data that is not a positive number of blocks and on
\* bad padding.
AesCbcDecrypt(key, iv, data) ==
  IF Len(iv) # IvLen \/ Len(data) = 0 \/ (Len(data) % IvLen) # 0
  THEN Fail("OperationError")
  ELSE LET padded == CbcDecryptFrom(key, iv, data, 1)
       IN IF Pkcs7Valid(padded)
          THEN Ok(Slice(padded, 1, Len(padded) - padded[Len(padded)]))
          ELSE Fail("OperationError")

\* symEncrypt(key, data), with the IV that getRandomValues drew.
symEncrypt(key, data, iv) ==
  arrayBufferToBase64(iv \o AesCbcEncrypt(key, iv, TextEncode(data)))

\* symDecrypt(strKey, encryptedData)
symDecrypt(strKey, encryptedData) ==
  LET ivAndEncryptedData == base64ToArrayBuffer(encryptedData)
      key == importSymKey(strKey)
      n == Len(ivAndEncryptedData)
      iv == Slice(ivAndEncryptedData, 1, IF n < IvLen THEN n ELSE IvLen)
      data == Slice(ivAndEncryptedData, IvLen + 1, n)
  IN IF ~key.ok THEN key
     ELSE LET decryptedData == AesCbcDecrypt(key.value, iv, data)
          IN IF decryptedData.ok
             THEN Ok(TextDecode(decryptedData.value))
             ELSE decryptedData

\* ---- RSA-OAEP ----
\* modulusLength: 2048
ModulusLength == 2048
\* hash: "SHA-256"
HashBits == 256
RsaLen == ModulusLength \div 8
HashLen == HashBits \div 8
\* The longest message OAEP can encode: k - 2 hLen - 2.
MaxMessageLen == RsaLen - 2 * HashLen - 2

RECURSIVE WeightedSum(_, _, _)
WeightedSum(s, lo, hi) ==
  IF lo > hi THEN 0
  ELSE IF lo = hi THEN (s[lo] + 1) * (2 * lo - 1)
  ELSE LET mid == (lo + hi) \div 2
       IN (WeightedSum(s, lo, mid) + WeightedSum(s, mid + 1, hi)) % 65521

\* Stand-in for the hash: a position-weighted checksum of the input.
Digest(x) == WeightedSum(x, 1, Len(x))

\* Stand-in for MGF1 over the hash: n mask bytes drawn from the digest.
Mgf(x, n) ==
  LET d == Digest(x)
  IN [i \in 1..n |-> ((d + i) * (2 * i + 1) + (d \div 256)) % 256]

\* The hash of the empty label.
LabelHash == Mgf(<<>>, HashLen)

\* EME-OAEP encoding of a message under a random seed of hLen bytes.
OaepEncode(message, seed) ==
  LET ps == [i \in 1..(MaxMessageLen - Len(message)) |-> 0]
      db == LabelHash \o ps \o <<1>> \o message
      maskedDb == XorBytes(db, Mgf(seed, RsaLen - HashLen - 1))
      maskedSeed == XorBytes(seed, Mgf(maskedDb, HashLen))
  IN <<0>> \o maskedSeed \o maskedDb

\* EME-OAEP decoding: the message, or <<-1>> when the block is not a valid
\* encoding (the leading byte, the label hash or the 0..0 1 separator is
\* wrong).
OaepDecode(em) ==
  LET maskedSeed == Slice(em, 2, HashLen + 1)
      maskedDb == Slice(em, HashLen + 2, RsaLen)
      seed == XorBytes(maskedSeed, Mgf(maskedDb, HashLen))
      db == XorBytes(maskedDb, Mgf(seed, RsaLen - HashLen - 1))
      nonzero == {i \in (HashLen + 1)..Len(db) : db[i] # 0}
      sep == IF nonzero = {} THEN 0
             ELSE CHOOSE i \in nonzero : \A j \in nonzero : i <= j
  IN IF em[1] = 0 /\ Slice(db, 1, HashLen) = LabelHash /\ sep > 0 /\ db[sep] = 1
     THEN Slice(db, sep + 1, Len(db))
     ELSE <<-1>>

\* webcrypto.subtle.generateKey({name: "RSA-OAEP", ...}): the pair shares
\* its key material; the halves differ in type and usage.
generateRsaKeyPair(seed) ==
  LET material == [i \in 1..8 |-> (seed * i + 11) % 256]
  IN [publicKey |-> [type |-> "public", material |-> material, usages |-> {"encrypt"}],
      privateKey |-> [type |-> "private", material |-> material, usages |-> {"decrypt"}]]

\* The first bytes of the SubjectPublicKeyInfo of a 2048-bit RSA key.
SpkiHeader == <<48, 130, 1, 34>>

\* exportKey("spki", key) as Base64.
exportPubKey(key) == arrayBufferToBase64(SpkiHeader \o key.material)

\* importKey("spki", ..., ["encrypt"])
importPubKey(strKey) ==
  LET der == base64ToArrayBuffer(strKey)
  IN IF Len(der) > Len(SpkiHeader) /\ Slice(der, 1, Len(SpkiHeader)) = SpkiHeader
     THEN Ok([type |-> "public", material |-> Slice(der, Len(SpkiHeader) + 1, Len(der)),
              usages |-> {"encrypt"}])
     ELSE Fail("DataError")

\* subtle.encrypt({name: "RSA-OAEP"}, key, data): the encoding step turns
\* down a message longer than k - 2 hLen - 2 ("message too long").
RsaOaepEncrypt(key, data, seed) ==
  IF "encrypt" \notin key.usages THEN Fail("InvalidAccessError")
  ELSE IF Len(data) > MaxMessageLen THEN Fail("OperationError")
  ELSE Ok(Permute(key.material, OaepEncode(data, seed)))

\* subtle.decrypt({name: "RSA-OAEP"}, key, data)
RsaOaepDecrypt(key, data) ==
  IF "decrypt" \notin key.usages THEN Fail("InvalidAccessError")
  ELSE IF Len(data) # RsaLen THEN Fail("OperationError")
  ELSE LET message == OaepDecode(Unpermute(key.material, data))
       IN IF message = <<-1>> THEN Fail("OperationError") ELSE Ok(message)

\* rsaEncrypt(b64Data, strPublicKey), with the seed the encryption drew.
rsaEncrypt(b64Data, strPublicKey, seed) ==
  LET pubKey == importPubKey(strPublicKey)
  IN IF ~pubKey.ok THEN pubKey
     ELSE LET encryptedData ==
                RsaOaepEncrypt(pubKey.value, base64ToArrayBuffer(b64Data), seed)
          IN IF encryptedData.ok
             THEN Ok(arrayBufferToBase64(encryptedData.value))
             ELSE encryptedData

\* Whether rsaEncrypt reaches its call of webcrypto.subtle.encrypt: nothing
\* but the import of the key stands before it.
rsaEncryptCallsSubtle(b64Data, strPublicKey) == importPubKey(strPublicKey).ok

\* rsaDecrypt(data, privateKey)
rsaDecrypt(data, privateKey) ==
  LET decryptedData == RsaOaepDecrypt(privateKey, base64ToArrayBuffer(data))
  IN IF decryptedData.ok
     THEN Ok(arrayBufferToBase64(decryptedData.value))
     ELSE decryptedData

(***************************************************************************)
(* Bounds of the registry model.                                           *)
(***************************************************************************)
\* Total number of HTTP requests one behaviour sends to the registry.
MaxReqs == 4

\* The independent callers; each has at most one request in flight.
Callers == {"c1", "c2"}

(***************************************************************************)
(* JavaScript values as they come out of the JSON body parser.  A value is *)
(* primitive [t, v]: t is the typeof tag, v the printed value.  TLA+       *)
(* equality on these records is JavaScript's === on primitives: equal     *)
(* type and equal value (1 and "1" differ, undefined equals undefined).   *)
(***************************************************************************)
Num(n) == [t |-> "number", v |-> ToString(n)]
Str(s) == [t |-> "string", v |-> s]
Undefined == [t |-> "undefined", v |-> ""]

\* What a request body may carry under the key nodeId: an integer, or
\* nothing (const { nodeId, pubKey } = req.body leaves it undefined).
NodeIdInputs == {Num(1), Num(2), Undefined}
\* What a request body may carry under the key pubKey: a text, or a
\* wrongly typed value (a JSON number).
PubKeyInputs == {Str("A"), Str("B"), Num(7)}

None == [t |-> "none", v |-> ""]

\* type Node = { nodeId: number; pubKey: string }
IsNode(n) == n.nodeId.t = "number" /\ n.pubKey.t = "string"

\* res.send(text): an ordinary 200 response carrying text.
Send(text) == [kind |-> "response", status |-> 200, body |-> text]

AlreadyRegistered == "Node already registered or public key in use."
Registered == "Node registered successfully."

\* getNodeRegistryBody.nodes.some(n => n.nodeId === nodeId || n.pubKey === pubKey)
IsDuplicateIdOnly(ns, nodeId, pubKey) ==
  \E i \in 1..Len(ns) : ns[i].nodeId = nodeId

IsDuplicateBoth(ns, nodeId, pubKey) ==
  \E i \in 1..Len(ns) : ns[i].nodeId = nodeId /\ ns[i].pubKey = pubKey

IsDuplicate(ns, nodeId, pubKey) ==
  \E i \in 1..Len(ns) : ns[i].nodeId = nodeId \/ ns[i].pubKey = pubKey

\* getNodeRegistryBody.nodes.push({ nodeId, pubKey })
PushFront(ns, nodeId, pubKey) ==
  <<[nodeId |-> nodeId, pubKey |-> pubKey]>> \o ns

Push(ns, nodeId, pubKey) ==
  Append(ns, [nodeId |-> nodeId, pubKey |-> pubKey])

\* The registry after the /registerNode handler has run on a body.
NodesAfterAlwaysPush(ns, nodeId, pubKey) ==
  Push(ns, nodeId, pubKey)

NodesAfter(ns, nodeId, pubKey) ==
  IF IsDuplicate(ns, nodeId, pubKey) THEN ns ELSE Push(ns, nodeId, pubKey)

\* The response of the /registerNode handler.
ResponseOfThrowing(ns, nodeId, pubKey) ==
  IF IsDuplicate(ns, nodeId, pubKey)
  THEN [kind |-> "fault", status |-> 500, body |-> AlreadyRegistered]
  ELSE Send(Registered)

ResponseOf(ns, nodeId, pubKey) ==
  IF IsDuplicate(ns, nodeId, pubKey)
  THEN Send(AlreadyRegistered)
  ELSE Send(Registered)

Handled == Len(log)
InFlight == Cardinality({c \in Callers : pending[c] # None})

\* A request raced when, between its arrival and its handling, the handler
\* admitted another request with the same nodeId or the same pubKey.
Raced(req) ==
  \E i \in (req.seen + 1)..Len(log) :
    /\ log[i].route = "/registerNode"
    /\ log[i].res.body = Registered
    /\ (log[i].nodeId = req.nodeId \/ log[i].pubKey = req.pubKey)

\* No key has been generated and nothing encrypted.
SymIdle ==
  [stage |-> "idle", key |-> <<>>, plain |-> <<>>, iv |-> <<>>, wire |-> <<>>,
   received |-> <<>>, out |-> Fail("")]
NoKey == [type |-> "none", material |-> <<>>, usages |-> {}]
RsaIdle ==
  [stage |-> "idle", pair |-> [publicKey |-> NoKey, privateKey |-> NoKey], plain |-> <<>>,
   subtleCalled |-> FALSE, enc |-> Fail(""), received |-> <<>>, out |-> Fail("")]

Init ==
  /\ nodes = <<>>
  /\ log = <<>>
  /\ pending = [c \in Callers |-> None]
  /\ sym = SymIdle
  /\ rsa = RsaIdle

\* A caller's POST /registerNode arrives; express.json() parses its body.
\* The handler has not run yet: other requests may be handled meanwhile.
Receive(c) ==
  /\ pending[c] = None
  /\ Handled + InFlight < MaxReqs
  /\ \E nodeId \in NodeIdInputs, pubKey \in PubKeyInputs :
       pending' = [pending EXCEPT ![c] =
                     [t |-> "body", v |-> "", seen |-> Handled,
                      nodeId |-> nodeId, pubKey |-> pubKey]]
  /\ UNCHANGED <<nodes, log, sym, rsa>>

\* The /registerNode handler: one synchronous callback, run to completion.
RegisterNode(c) ==
  /\ pending[c] # None
  /\ LET nodeId == pending[c].nodeId
         pubKey == pending[c].pubKey
     IN /\ nodes' = NodesAfter(nodes, nodeId, pubKey)
        /\ log' = Append(log, [route |-> "/registerNode",
                               raced |-> Raced(pending[c]),
                               nodeId |-> nodeId, pubKey |-> pubKey,
                               res |-> ResponseOf(nodes, nodeId, pubKey)])
  /\ pending' = [pending EXCEPT ![c] = None]
  /\ UNCHANGED <<sym, rsa>>

\* The /status handler.
Status ==
  /\ Handled + InFlight < MaxReqs
  /\ log' = Append(log, [route |-> "/status", raced |-> FALSE,
                         nodeId |-> Undefined, pubKey |-> Undefined, res |-> Send("live")])
  /\ UNCHANGED <<nodes, pending, sym, rsa>>

Next ==
  \/ \E c \in Callers : Receive(c)
  \/ \E c \in Callers : RegisterNode(c)
  \/ Status

Spec == Init /\ [][Next]_vars

(***************************************************************************)
(* The two transports in use: a key is generated, a text is encrypted, the *)
(* ciphertext text travels (and may arrive with one byte flipped), and is  *)
(* decrypted.                                                              *)
(***************************************************************************)
\* Longest plaintext, in code units, drawn from TextChars.
MaxTextLen == 2
\* Longest text handed to rsaEncrypt, drawn from B64Chars.
MaxB64Len == 4

\* 'A', e-acute, the euro sign, U+FEFF, a high and a low surrogate.
TextChars == {65, 233, 8364, 65279, 55357, 56832}
\* Plaintexts that end just before, on and just after a block boundary.
LongTextLens == {15, 16, 17, 33}
Plaintexts ==
  UNION {[1..n -> TextChars] : n \in 0..MaxTextLen}
  \cup {[i \in 1..n |-> 65] : n \in LongTextLens}

\* 'A' (value 0), 'R' (value 17) and '='.
B64Chars == {65, 82, 61}
\* The Base64 text of n zero bytes.
ZeroesB64(n) ==
  [i \in 1..(4 * ((n + 2) \div 3)) |-> IF i <= (4 * n + 2) \div 3 THEN 65 ELSE Pad]
\* Byte counts on both sides of the OAEP bound.
LongByteLens == {MaxMessageLen - 1, MaxMessageLen, MaxMessageLen + 1, MaxMessageLen + 2}
RsaInputs ==
  UNION {[1..n -> B64Chars] : n \in 0..MaxB64Len}
  \cup {ZeroesB64(n) : n \in LongByteLens}

SymKeySeeds == {3, 200}
RsaKeySeeds == {3, 200}
\* What getRandomValues may return for the IV, and the encryption for the
\* OAEP seed.
Ivs == {[i \in 1..IvLen |-> (r + 17 * i) % 256] : r \in {0, 101}}
OaepSeeds == {[i \in 1..HashLen |-> (r + 29 * i) % 256] : r \in {0, 101}}

\* The bits flipped in a byte: the lowest, the highest, all.
FlipMasks == {1, 128, 255}
FlipByte(buf, pos, mask) == [buf EXCEPT ![pos] = Xor(buf[pos], mask)]
\* A ciphertext text with one byte of the buffer it encodes flipped.
Flipped(wire, pos, mask) ==
  arrayBufferToBase64(FlipByte(base64ToArrayBuffer(wire), pos, mask))

\* The bytes of an RSA ciphertext that are flipped in transit: the first,
\* one in the masked seed, one in the masked data block, the last.
RsaFlipPositions == {1, HashLen, HashLen + 2, RsaLen}

SymGenerateKey ==
  /\ sym.stage = "idle" /\ rsa.stage = "idle"
  /\ \E seed \in SymKeySeeds :
       sym' = [sym EXCEPT !.stage = "keyed", !.key = createRandomSymmetricKey(seed)]
  /\ UNCHANGED <<nodes, log, pending, rsa>>

SymEncrypt ==
  /\ sym.stage = "keyed"
  /\ \E data \in Plaintexts, iv \in Ivs :
       sym' = [sym EXCEPT !.stage = "encrypted", !.plain = data, !.iv = iv,
                          !.wire = symEncrypt(sym.key, data, iv)]
  /\ UNCHANGED <<nodes, log, pending, rsa>>

\* The ciphertext arrives as it was sent and is decrypted.
SymDecrypt ==
  /\ sym.stage = "encrypted"
  /\ sym' = [sym EXCEPT !.stage = "decrypted", !.received = sym.wire,
                        !.out = symDecrypt(exportSymKey(sym.key), sym.wire)]
  /\ UNCHANGED <<nodes, log, pending, rsa>>

\* The ciphertext arrives with one byte flipped (a byte of the IV or of the
\* cipher output) and is decrypted.
SymDecryptFlipped ==
  /\ sym.stage = "encrypted"
  /\ \E pos \in 1..Len(base64ToArrayBuffer(sym.wire)), mask \in FlipMasks :
       LET encryptedData == Flipped(sym.wire, pos, mask)
       IN sym' = [sym EXCEPT !.stage = "decrypted", !.received = encryptedData,
                             !.out = symDecrypt(exportSymKey(sym.key), encryptedData)]
  /\ UNCHANGED <<nodes, log, pending, rsa>>

RsaGenerateKeyPair ==
  /\ sym.stage = "idle" /\ rsa.stage = "idle"
  /\ \E seed \in RsaKeySeeds :
       rsa' = [rsa EXCEPT !.stage = "keyed", !.pair = generateRsaKeyPair(seed)]
  /\ UNCHANGED <<nodes, log, pending, sym>>

RsaEncrypt ==
  /\ rsa.stage = "keyed"
  /\ \E b64Data \in RsaInputs, seed \in OaepSeeds :
       LET strPublicKey == exportPubKey(rsa.pair.publicKey)
       IN rsa' = [rsa EXCEPT !.stage = "encrypted", !.plain = b64Data,
                    !.subtleCalled = rsaEncryptCallsSubtle(b64Data, strPublicKey),
                    !.enc = rsaEncrypt(b64Data, strPublicKey, seed)]
  /\ UNCHANGED <<nodes, log, pending, sym>>

\* The ciphertext arrives as it was sent and is decrypted.
RsaDecrypt ==
  /\ rsa.stage = "encrypted"
  /\ rsa.enc.ok
  /\ rsa' = [rsa EXCEPT !.stage = "decrypted", !.received = rsa.enc.value,
                        !.out = rsaDecrypt(rsa.enc.value, rsa.pair.privateKey)]
  /\ UNCHANGED <<nodes, log, pending, sym>>

\* The ciphertext arrives with one byte flipped and is decrypted.
RsaDecryptFlipped ==
  /\ rsa.stage = "encrypted"
  /\ rsa.enc.ok
  /\ \E pos \in RsaFlipPositions, mask \in FlipMasks :
       LET data == Flipped(rsa.enc.value, pos, mask)
       IN rsa' = [rsa EXCEPT !.stage = "decrypted", !.received = data,
                             !.out = rsaDecrypt(data, rsa.pair.privateKey)]
  /\ UNCHANGED <<nodes, log, pending, sym>>

RsaNext == RsaGenerateKeyPair \/ RsaEncrypt \/ RsaDecrypt

CryptoNext ==
  \/ SymGenerateKey \/ SymEncrypt \/ SymDecrypt \/ SymDecryptFlipped
  \/ RsaGenerateKeyPair \/ RsaEncrypt \/ RsaDecrypt \/ RsaDecryptFlipped

\* The asymmetric transport alone, and the two transports.
RsaSpec == Init /\ [][RsaNext]_vars
CryptoSpec == Init /\ [][CryptoNext]_vars

(***************************************************************************)
(* Properties of the registry.                                             *)
(***************************************************************************)
IsRegisterEntry(e) == e.route = "/registerNode"
Entry(e) == [nodeId |-> e.nodeId, pubKey |-> e.pubKey]
Last(s) == s[Len(s)]
IsPrefix(s, t) == Len(s) <= Len(t) /\ SubSeq(t, 1, Len(s)) = s

\* The step just taken is the /registerNode handler.
RegisterStep == Len(log') = Len(log) + 1 /\ IsRegisterEntry(Last(log'))

\* C1: in every reachable state no two entries of the registry have the
\* same nodeId and no two entries have the same pubKey.
C1_Unique ==
  \A i, j \in 1..Len(nodes) :
    i # j => /\ nodes[i].nodeId # nodes[j].nodeId
             /\ nodes[i].pubKey # nodes[j].pubKey

\* Two entries are in the registry after a request was turned down for its
\* nodeId and another for its pubKey.
C1_Witness ==
  /\ Len(nodes) = 2
  /\ \E i, j \in 1..Len(log) :
       /\ log[i].res.body = AlreadyRegistered
       /\ log[j].res.body = AlreadyRegistered
       /\ log[i].nodeId = nodes[1].nodeId /\ log[i].pubKey # nodes[1].pubKey
       /\ log[j].pubKey = nodes[1].pubKey /\ log[j].nodeId # nodes[1].nodeId

\* C2: a registerNode request made when some entry has the same nodeId or
\* the same pubKey gets the 'already registered' text as an ordinary
\* response, not a fault, and leaves the registry as it was.
C2_RejectDuplicate ==
  [][(/\ RegisterStep
      /\ \E i \in 1..Len(nodes) :
           \/ nodes[i].nodeId = Last(log').nodeId
           \/ nodes[i].pubKey = Last(log').pubKey)
     => /\ Last(log').res.kind = "response"
        /\ Last(log').res.body = AlreadyRegistered
        /\ nodes' = nodes]_vars

\* The last request handled had the pubKey of an entry and another nodeId,
\* and was turned down.
C2_Witness ==
  /\ log # <<>>
  /\ IsRegisterEntry(Last(log))
  /\ Last(log).res = Send(AlreadyRegistered)
  /\ \E i \in 1..Len(nodes) : nodes[i].pubKey = Last(log).pubKey
  /\ \A i \in 1..Len(nodes) : nodes[i].nodeId # Last(log).nodeId

\* C3: whatever the interleaving of the callers' requests, no two requests
\* with the same nodeId or the same pubKey both get the 'registered'
\* outcome.
C3_NoTwoWinners ==
  \A i, j \in 1..Len(log) :
    (/\ i # j
     /\ IsRegisterEntry(log[i]) /\ IsRegisterEntry(log[j])
     /\ log[i].res.body = Registered /\ log[j].res.body = Registered)
    => /\ log[i].nodeId # log[j].nodeId
       /\ log[i].pubKey # log[j].pubKey

\* A request was in flight while a colliding request of the other caller
\* was admitted, and was then turned down.
C3_Witness ==
  \E j \in 1..Len(log) :
    /\ IsRegisterEntry(log[j])
    /\ log[j].raced
    /\ log[j].res.body = AlreadyRegistered

\* The requests handled so far, and the outcomes they got.
Requests == [i \in 1..Len(log) |-> Entry(log[i])]
Outcomes == [i \in 1..Len(log) |-> log[i].res.body]
Accepted ==
  LET ok == SelectSeq(log, LAMBDA e : IsRegisterEntry(e) /\ e.res.body = Registered)
  IN [i \in 1..Len(ok) |-> Entry(ok[i])]

ScenarioRequests ==
  <<[nodeId |-> Num(1), pubKey |-> Str("A")], [nodeId |-> Num(1), pubKey |-> Str("B")],
    [nodeId |-> Num(2), pubKey |-> Str("A")], [nodeId |-> Num(2), pubKey |-> Str("B")]>>

IsScenario ==
  /\ Len(log) = Len(ScenarioRequests)
  /\ \A i \in 1..Len(log) : IsRegisterEntry(log[i])
  /\ Requests = ScenarioRequests

\* C4: a registerNode request whose nodeId and pubKey match no entry gets
\* 'registered' and appends exactly its {nodeId, pubKey} at the end of the
\* registry; the registry is the accepted requests in the order they were
\* handled; and register(1,A), (1,B), (2,A), (2,B) from the empty registry
\* give registered, already, already, registered and [{1,A},{2,B}].
C4_AppendInOrder ==
  /\ [][(/\ RegisterStep
          /\ \A i \in 1..Len(nodes) :
               /\ nodes[i].nodeId # Last(log').nodeId
               /\ nodes[i].pubKey # Last(log').pubKey)
         => /\ Last(log').res = Send(Registered)
            /\ nodes' = Append(nodes, Entry(Last(log')))]_vars
  /\ [](nodes = Accepted)
  /\ [](IsScenario =>
          /\ Outcomes = <<Registered, AlreadyRegistered, AlreadyRegistered, Registered>>
          /\ nodes = <<ScenarioRequests[1], ScenarioRequests[4]>>)

\* The four requests of the scenario have been handled, in that order.
C4_Witness ==
  /\ IsScenario
  /\ Len(nodes) = 2

\* C5: the registry starts empty, and across every step (a request
\* admitted, a request turned down, status) the registry before the step is
\* a prefix of the registry after it.
C5_AppendOnly ==
  /\ nodes = <<>>
  /\ [][IsPrefix(nodes, nodes')]_vars

\* Two entries were admitted, and since then a request was turned down and
\* status was asked.
C5_Witness ==
  /\ Len(nodes) = 2
  /\ \E i, j, k \in 1..Len(log) :
       /\ i < j /\ j < k
       /\ Entry(log[i]) = nodes[2]
       /\ IsRegisterEntry(log[j]) /\ log[j].res.body = AlreadyRegistered
       /\ ~IsRegisterEntry(log[k])

\* C10: every entry of the registry has an integer nodeId and a text
\* pubKey, whatever the request bodies were.
C10_EntriesTyped ==
  \A i \in 1..Len(nodes) : IsNode(nodes[i])

(***************************************************************************)
(* Properties of the two transports.                                       *)
(***************************************************************************)
RsaEncrypted == rsa.stage \in {"encrypted", "decrypted"}
\* The bytes rsaEncrypt hands to the encryption.
RsaPlainBytes == base64ToArrayBuffer(rsa.plain)
SymFlipped == sym.stage = "decrypted" /\ sym.received # sym.wire
RsaFlipped == rsa.stage = "decrypted" /\ rsa.received # rsa.enc.value

\* C6: asymmetric encrypt of a plaintext longer than 190 bytes fails with
\* PayloadTooLargeError, raised before the underlying encryption operation
\* is attempted.
C6_PayloadTooLarge ==
  (RsaEncrypted /\ Len(RsaPlainBytes) > 190)
  => /\ ~rsa.enc.ok
     /\ rsa.enc.error = "PayloadTooLargeError"
     /\ ~rsa.subtleCalled

\* C7: a symmetric ciphertext (IV included) or an asymmetric ciphertext
\* that arrives with a byte flipped makes decrypt fail; decrypt never
\* returns successfully on it.
C7_TamperDetected ==
  /\ SymFlipped => ~sym.out.ok
  /\ RsaFlipped => ~rsa.out.ok

\* C8: encrypt emits encode(IV || cipher output) with the 16-byte IV first,
\* and decrypting what encrypt emitted, under the exported key, gives back
\* the plaintext, whatever the plaintext and the key.
C8_SymRoundTrip ==
  /\ sym.stage \in {"encrypted", "decrypted"} =>
       LET buf == base64ToArrayBuffer(sym.wire)
       IN /\ Len(buf) > 16
          /\ (Len(buf) % 16) = 0
          /\ SubSeq(buf, 1, 16) = sym.iv
  /\ (sym.stage = "decrypted" /\ sym.received = sym.wire) =>
       /\ sym.out.ok
       /\ sym.out.value = sym.plain

IsStandardB64Char(c) ==
  \/ c >= 65 /\ c <= 90
  \/ c >= 97 /\ c <= 122
  \/ c >= 48 /\ c <= 57
  \/ c = 43 \/ c = 47

\* Whether a text is the Base64 text of some byte sequence as RFC 4648
\* writes it: groups of four characters of the standard alphabet, the last
\* group padded with one or two '=' and its unused bits zero.
IsCanonicalBase64(p) ==
  LET n == Len(p)
      pads == IF n > 0 /\ p[n] = Pad
              THEN (IF n > 1 /\ p[n - 1] = Pad THEN 2 ELSE 1)
              ELSE 0
  IN /\ (n % 4) = 0
     /\ \A i \in 1..(n - pads) : IsStandardB64Char(p[i])
     /\ pads = 1 => (B64Value(p[n - 1]) % 4) = 0
     /\ pads = 2 => (B64Value(p[n - 2]) % 16) = 0

\* The number of bytes a canonical Base64 text stands for.
CanonicalByteLen(p) ==
  (Len(p) \div 4) * 3 - Cardinality({i \in 1..Len(p) : p[i] = Pad})

\* C9 (as amended): for every text p that is the canonical Base64 text of
\* at most 190 bytes and every key pair, encrypt(p, exportPublic(pub))
\* succeeds and decrypt of its result under priv equals p.
C9_RoundTripCanonical ==
  (IsCanonicalBase64(rsa.plain) /\ CanonicalByteLen(rsa.plain) <= 190) =>
    /\ RsaEncrypted => rsa.enc.ok
    /\ rsa.stage = "decrypted" =>
         /\ rsa.out.ok
         /\ rsa.out.value = rsa.plain

\* A canonical text of exactly 190 bytes, and a padded one of one byte,
\* have made the round trip.
C9_Witness ==
  /\ rsa.stage = "decrypted"
  /\ rsa.out.ok
  /\ IsCanonicalBase64(rsa.plain)
  /\ CanonicalByteLen(rsa.plain) = 190

\* C9 (as stated): for every plaintext text p of at most 190 bytes and
\* every key pair, decrypt(encrypt(p, exportPublic(pub)), priv) equals p.
C9_RoundTripAnyText ==
  Len(rsa.plain) <= 190 =>
    /\ RsaEncrypted => rsa.enc.ok
    /\ rsa.stage = "decrypted" =>
         /\ rsa.out.ok
         /\ rsa.out.value = rsa.plain

====
